---- MODULE Spec2Model ----
(***************************************************************************)
(* A model of ddf: the mount enumeration (fsext.rs: MountInfo::new,        *)
(* read_fs_list), the usage probe (fsext.rs: statfs, FsUsage::new) and the *)
(* listing built from them (main.rs: main).                                *)
(*                                                                         *)
(* A Rust String is a sequence of one-character strings, so that           *)
(* split_whitespace, starts_with and ends_with are computed as the code    *)
(* computes them.  A wide-character buffer is a sequence of code units,    *)
(* the unit "NUL" standing for 0.                                          *)
(***************************************************************************)
EXTENDS Integers, Sequences, FiniteSets, TLC

VARIABLES
  pc,              \* position of the program (or of the function under test)
  platform,        \* the build target: "linux" or "windows"
  file_name,       \* read_fs_list: the mount table that was opened
  raw,             \* MountInfo::new: the tokens it is given
  info,            \* MountInfo::new: what it returned
  target,          \* usage probe: the path it is given
  os,              \* usage probe: what the operating system answers
  probe,           \* usage probe: what it returned
  files,           \* main: args.files
  exclude,         \* main: config.exclude
  opened,          \* read_fs_list: the File::open calls made, with their outcome
  lines,           \* read_fs_list: the lines read from the mount table so far
  volume_name_buf, \* read_fs_list (windows): the buffer the volume search fills
  volumes,         \* read_fs_list (windows): the buffers delivered so far
  find_handle,     \* read_fs_list (windows): "none", "valid", "invalid"
  closes,          \* read_fs_list (windows): FindVolumeClose calls made
  warnings,        \* read_fs_list (windows): show_warning! calls made
  last_query,      \* read_fs_list (windows): how the last volume's queries ended
  mounts,          \* read_fs_list: the Vec<MountInfo> collected so far
  fs_list,         \* read_fs_list: "running", "Ok", "Err", "panic"
  built,           \* main: what Filesystem::from_path / Filesystem::new gave per target
  filesystems      \* main: the Vec<Filesystem> collected so far

parse_vars == <<raw, info>>
probe_vars == <<target, os, probe>>
args_vars == <<files, exclude>>
linux_vars == <<file_name, opened, lines>>
windows_vars == <<volume_name_buf, volumes, find_handle, closes, warnings, last_query>>
main_vars == <<built, filesystems>>

vars == <<pc, platform, parse_vars, probe_vars, args_vars, linux_vars, windows_vars,
          mounts, fs_list, main_vars>>

(***************************************************************************)
(* Bounds of the model.                                                    *)
(***************************************************************************)
MaxOptional == 2     \* optional fields of a mountinfo line before "-"

(***************************************************************************)
(* Program constants (fsext.rs).                                           *)
(***************************************************************************)
LINUX_MTAB == "/etc/mtab"
LINUX_MOUNTINFO == "/proc/self/mountinfo"
FIELDS_OFFSET == 6

(***************************************************************************)
(* Option, Result and panics.                                              *)
(***************************************************************************)
None == [kind |-> "None"]
Some(v) == [kind |-> "Some", val |-> v]
Panic == [kind |-> "panic"]

(***************************************************************************)
(* Strings.                                                                *)
(***************************************************************************)
DASH == <<"-">>

\* str::starts_with(prefix)
starts_with(s, p) ==
  /\ Len(p) <= Len(s)
  /\ SubSeq(s, 1, Len(p)) = p

\* str::ends_with(suffix)
ends_with(s, p) ==
  /\ Len(p) <= Len(s)
  /\ SubSeq(s, Len(s) - Len(p) + 1, Len(s)) = p

is_whitespace(c) == c \in {" ", "\t"}

\* str::split_whitespace().collect::<Vec<&str>>(): the maximal runs of
\* non-whitespace characters, in order.
RECURSIVE split_from(_, _, _)
split_from(s, i, cur) ==
  IF i > Len(s)
  THEN IF cur = <<>> THEN <<>> ELSE <<cur>>
  ELSE IF is_whitespace(s[i])
       THEN IF cur = <<>>
            THEN split_from(s, i + 1, <<>>)
            ELSE <<cur>> \o split_from(s, i + 1, <<>>)
       ELSE split_from(s, i + 1, Append(cur, s[i]))

split_whitespace(line) == split_from(line, 1, <<>>)

\* Iterator::position over a slice: the 0-based index of the first element
\* equal to x, or -1 for None.
position(slice, x) ==
  IF \E i \in 1..Len(slice) : slice[i] = x
  THEN (CHOOSE i \in 1..Len(slice) :
          /\ slice[i] = x
          /\ \A j \in 1..(i - 1) : slice[j] /= x) - 1
  ELSE -1

\* raw[i] with Rust's 0-based index; the caller checks the bound.
at(s, i) == s[i + 1]

(***************************************************************************)
(* MountInfo::new (linux, android).  An index out of bounds, a slice out   *)
(* of range and unwrap() of None are panics.                               *)
(***************************************************************************)
MountInfo(dev_name, fs_type, mount_dir) ==
  [dev_name |-> dev_name, fs_type |-> fs_type, mount_dir |-> mount_dir]

\* Mutant: the separator is taken to sit at index 6 (no optional field).
MountInfo_new_fixed_separator(name, tokens) ==
  IF name = LINUX_MOUNTINFO
  THEN IF Len(tokens) <= FIELDS_OFFSET + 2
       THEN Panic
       ELSE Some(MountInfo(at(tokens, FIELDS_OFFSET + 2),
                           at(tokens, FIELDS_OFFSET + 1),
                           at(tokens, 4)))
  ELSE IF name = LINUX_MTAB
       THEN IF Len(tokens) < 3
            THEN Panic
            ELSE Some(MountInfo(at(tokens, 0), at(tokens, 2), at(tokens, 1)))
       ELSE None

\* Mutant: the mtab arm reads the type and the directory from each other's
\* column.
MountInfo_new_swapped_mtab(name, tokens) ==
  IF name = LINUX_MOUNTINFO
  THEN IF Len(tokens) < FIELDS_OFFSET
       THEN Panic
       ELSE LET pos == position(SubSeq(tokens, FIELDS_OFFSET + 1, Len(tokens)), DASH)
                after_fields == pos + FIELDS_OFFSET + 1
            IN  IF pos = -1 \/ after_fields + 1 >= Len(tokens)
                THEN Panic
                ELSE Some(MountInfo(at(tokens, after_fields + 1),
                                    at(tokens, after_fields),
                                    at(tokens, 4)))
  ELSE IF name = LINUX_MTAB
       THEN IF Len(tokens) < 3
            THEN Panic
            ELSE Some(MountInfo(at(tokens, 0), at(tokens, 1), at(tokens, 2)))
       ELSE None

\* Mutant: a mountinfo line without its separator gives None (the line is
\* skipped) instead of a panic.
MountInfo_new_skipping(name, tokens) ==
  IF name = LINUX_MOUNTINFO
  THEN IF Len(tokens) < FIELDS_OFFSET
       THEN None
       ELSE LET pos == position(SubSeq(tokens, FIELDS_OFFSET + 1, Len(tokens)), DASH)
                after_fields == pos + FIELDS_OFFSET + 1
            IN  IF pos = -1 \/ after_fields + 1 >= Len(tokens)
                THEN None
                ELSE Some(MountInfo(at(tokens, after_fields + 1),
                                    at(tokens, after_fields),
                                    at(tokens, 4)))
  ELSE IF name = LINUX_MTAB
       THEN IF Len(tokens) < 3
            THEN Panic
            ELSE Some(MountInfo(at(tokens, 0), at(tokens, 2), at(tokens, 1)))
       ELSE None

MountInfo_new(name, tokens) ==
  IF name = LINUX_MOUNTINFO
  THEN IF Len(tokens) < FIELDS_OFFSET
       THEN Panic                                   \* raw[FIELDS_OFFSET..]
       ELSE LET pos == position(SubSeq(tokens, FIELDS_OFFSET + 1, Len(tokens)), DASH)
                after_fields == pos + FIELDS_OFFSET + 1
            IN  IF pos = -1
                THEN Panic                          \* .unwrap()
                ELSE IF after_fields + 1 >= Len(tokens)
                     THEN Panic                     \* raw[after_fields + 1]
                     ELSE Some(MountInfo(at(tokens, after_fields + 1),
                                         at(tokens, after_fields),
                                         at(tokens, 4)))
  ELSE IF name = LINUX_MTAB
       THEN IF Len(tokens) < 3
            THEN Panic                              \* raw[0], raw[2], raw[1]
            ELSE Some(MountInfo(at(tokens, 0), at(tokens, 2), at(tokens, 1)))
       ELSE None

(***************************************************************************)
(* The token sequences MountInfo::new is tried on: the fields of a         *)
(* mountinfo line with up to MaxOptional optional fields, "-" also placed  *)
(* where the format has other fields, and every prefix of such a line.     *)
(***************************************************************************)
TOK_ID == <<"3", "6">>
TOK_PARENT == <<"3", "5">>
TOK_DEV == <<"8", ":", "1">>
TOK_ROOT == <<"/">>
TOK_MNT == <<"/", "m">>
TOK_RW == <<"r", "w">>
TOK_MASTER == <<"m", ":", "1">>
TOK_SHARED == <<"s", ":", "2">>
TOK_XFS == <<"x", "f", "s">>
TOK_PROC == <<"p", "r", "o", "c">>
TOK_DEVFS == <<"/", "d">>

SeqsUpTo(S, n) == UNION {[1..k -> S] : k \in 0..n}

OptionalFields == SeqsUpTo({TOK_MASTER, TOK_SHARED}, MaxOptional)

FullTokenLines ==
  { <<TOK_ID, TOK_PARENT, TOK_DEV, root, dir, opts>> \o opt \o <<DASH, typ, src>> \o tail :
      root \in {TOK_ROOT}, dir \in {TOK_ROOT, TOK_MNT}, opts \in {TOK_RW, DASH},
      opt \in OptionalFields, typ \in {TOK_XFS, DASH}, src \in {TOK_DEVFS, TOK_PROC},
      tail \in {<<>>, <<TOK_RW>>} }

RawInputs == UNION { {SubSeq(l, 1, k) : k \in 0..Len(l)} : l \in FullTokenLines }

FileNames == {LINUX_MOUNTINFO, LINUX_MTAB, "/etc/fstab"}

(***************************************************************************)
(* SpecParse: MountInfo::new applied to one token sequence.                *)
(***************************************************************************)
\* The variables of the program proper, when only a function is under test.
ProgramIdle ==
  /\ files = None
  /\ exclude = None
  /\ opened = <<>>
  /\ lines = <<>>
  /\ volume_name_buf = <<"NUL">>
  /\ volumes = <<>>
  /\ find_handle = "none"
  /\ closes = 0
  /\ warnings = 0
  /\ last_query = "none"
  /\ mounts = <<>>
  /\ fs_list = "running"
  /\ built = <<>>
  /\ filesystems = <<>>

InitParse ==
  /\ pc = "parse"
  /\ platform = "linux"
  /\ file_name \in FileNames
  /\ raw \in RawInputs
  /\ info = None
  /\ target = <<>>
  /\ os = None
  /\ probe = None
  /\ ProgramIdle

Parse ==
  /\ pc = "parse"
  /\ info' = MountInfo_new(file_name, raw)
  /\ pc' = "parsed"
  /\ UNCHANGED <<platform, file_name, raw, probe_vars, args_vars, opened, lines,
                 windows_vars, mounts, fs_list, main_vars>>

NextParse == Parse

SpecParse == InitParse /\ [][NextParse]_vars

(***************************************************************************)
(* C1, C2: the two line formats.                                           *)
(***************************************************************************)
\* The number of optional fields of a mountinfo token sequence: k when the
\* first "-" at index >= 6 sits at index 6 + k and two tokens follow it.
HasOptional(tokens, k) ==
  /\ Len(tokens) >= FIELDS_OFFSET + k + 3
  /\ at(tokens, FIELDS_OFFSET + k) = DASH
  /\ \A j \in FIELDS_OFFSET..(FIELDS_OFFSET + k - 1) : at(tokens, j) /= DASH

\* The same sequence with its k optional fields removed.
WithoutOptional(tokens, k) ==
  SubSeq(tokens, 1, FIELDS_OFFSET) \o SubSeq(tokens, FIELDS_OFFSET + k + 1, Len(tokens))

\* C1: a mountinfo line with 0..MaxOptional optional fields parses to
\* mount_dir = token 4, fs_type = the token after the first "-" at index
\* >= 6, dev_name = the token after that, and to the same record as the
\* line without its optional fields.
C1_MountinfoFields ==
  (pc = "parsed" /\ file_name = LINUX_MOUNTINFO) =>
    \A k \in 0..MaxOptional :
      HasOptional(raw, k) =>
        /\ info = Some(MountInfo(at(raw, FIELDS_OFFSET + k + 2),
                                 at(raw, FIELDS_OFFSET + k + 1),
                                 at(raw, 4)))
        /\ info = MountInfo_new(LINUX_MOUNTINFO, WithoutOptional(raw, k))

C1_Witness ==
  /\ pc = "parsed"
  /\ file_name = LINUX_MOUNTINFO
  /\ HasOptional(raw, 2)
  /\ at(raw, 5) = DASH
  /\ info = Some(MountInfo(TOK_DEVFS, TOK_XFS, TOK_MNT))

\* C2: an mtab line of at least 3 tokens parses to dev_name = token 0,
\* mount_dir = token 1, fs_type = token 2, whatever follows token 2.
C2_MtabFields ==
  (pc = "parsed" /\ file_name = LINUX_MTAB /\ Len(raw) >= 3) =>
    /\ info = Some(MountInfo(at(raw, 0), at(raw, 2), at(raw, 1)))
    /\ info = MountInfo_new(LINUX_MTAB, SubSeq(raw, 1, 3))

C2_Witness ==
  /\ pc = "parsed"
  /\ file_name = LINUX_MTAB
  /\ Len(raw) > 3
  /\ info = Some(MountInfo(TOK_ID, TOK_DEV, TOK_PARENT))

(***************************************************************************)
(* The usage probe: statfs and FsUsage::new.                               *)
(***************************************************************************)
Ok(v) == [kind |-> "Ok", val |-> v]
Err == [kind |-> "Err"]

\* A path that CString::new refuses: it holds a 0 byte.
has_nul(path) == \E i \in 1..Len(path) : path[i] = "NUL"

\* statfs (unix): CString::new(path), then the system call; answer.rc is
\* what statfs_fn returns and answer.buffer what it wrote.
statfs(path, answer) ==
  IF has_nul(path)
  THEN Err
  ELSE IF answer.rc = 0 THEN Ok(answer.buffer) ELSE Err

\* FsUsage::new (unix, 64 bit): the counters of the native struct, copied.
\* f_bsize is drawn non-negative, where `as u64` keeps its value.
FsUsage_new(statvfs) ==
  [blocksize |-> statvfs.f_bsize,
   blocks |-> statvfs.f_blocks,
   bfree |-> statvfs.f_bfree,
   bavail |-> statvfs.f_bavail]

\* FsUsage::new (windows): answer.path_names_ok and answer.free_space_ok are
\* the non-zero returns of GetVolumePathNamesForVolumeNameW and
\* GetDiskFreeSpaceW.  The four counters start at 0 and the query writes
\* them only when it succeeds; its failure is not acted on.
FsUsage_new_windows(path, answer) ==
  IF ~answer.path_names_ok
  THEN Err
  ELSE LET sectors_per_cluster ==
             IF answer.free_space_ok THEN answer.sectors_per_cluster ELSE 0
           bytes_per_sector ==
             IF answer.free_space_ok THEN answer.bytes_per_sector ELSE 0
           number_of_free_clusters ==
             IF answer.free_space_ok THEN answer.number_of_free_clusters ELSE 0
           total_number_of_clusters ==
             IF answer.free_space_ok THEN answer.total_number_of_clusters ELSE 0
           bytes_per_cluster == sectors_per_cluster * bytes_per_sector
       IN  Ok([blocksize |-> bytes_per_cluster,
               blocks |-> total_number_of_clusters,
               bfree |-> number_of_free_clusters,
               bavail |-> 0,
               bavail_top_bit_set |-> FALSE,  \* bit 63 of a 32-bit count
               files |-> 0,
               ffree |-> 0])

\* The usage probe of one target: statfs, then FsUsage::new of its buffer
\* (unix); FsUsage::new of the path (windows).
probe_usage(target_os, path, answer) ==
  IF target_os = "windows"
  THEN FsUsage_new_windows(path, answer)
  ELSE LET r == statfs(path, answer)
       IN  IF r.kind = "Ok" THEN Ok(FsUsage_new(r.val)) ELSE Err

(***************************************************************************)
(* What the operating system may answer to a usage query.                  *)
(***************************************************************************)
StatFsAnswers ==
  [rc : {0, -1},
   buffer : [f_bsize : {0, 4096}, f_blocks : {0, 8}, f_bfree : {0, 2}, f_bavail : {0, 1}]]

DiskFreeSpaceAnswers ==
  [path_names_ok : BOOLEAN, free_space_ok : BOOLEAN,
   sectors_per_cluster : {0, 8}, bytes_per_sector : {0, 512},
   number_of_free_clusters : {0, 2}, total_number_of_clusters : {0, 8}]

ProbePaths == {TOK_MNT, <<"/", "NUL">>}

(***************************************************************************)
(* SpecProbe: one usage probe of one path.                                 *)
(***************************************************************************)
InitProbe ==
  /\ pc = "probe"
  /\ platform \in {"linux", "windows"}
  /\ target \in ProbePaths
  /\ os \in IF platform = "windows" THEN DiskFreeSpaceAnswers ELSE StatFsAnswers
  /\ probe = None
  /\ file_name = LINUX_MOUNTINFO
  /\ raw = <<>>
  /\ info = None
  /\ ProgramIdle

Probe ==
  /\ pc = "probe"
  /\ probe' = probe_usage(platform, target, os)
  /\ pc' = "probed"
  /\ UNCHANGED <<platform, file_name, parse_vars, target, os, args_vars, opened, lines,
                 windows_vars, mounts, fs_list, main_vars>>

NextProbe == Probe

SpecProbe == InitProbe /\ [][NextProbe]_vars

(***************************************************************************)
(* C9, C10: the usage probe's failures.                                    *)
(***************************************************************************)
\* C9: on Windows, a failed free-space query makes FsUsage::new return an
\* error, never Ok.
C9_FreeSpaceFailureIsError ==
  (pc = "probed" /\ platform = "windows" /\ ~os.free_space_ok) => probe = Err

\* C10: a probe that succeeds has blocksize > 0.
C10_BlocksizePositive ==
  (pc = "probed" /\ probe.kind = "Ok") => probe.val.blocksize > 0

(***************************************************************************)
(* MountInfo::new (windows).                                               *)
(***************************************************************************)
DRIVE_REMOTE == 4
BACKSLASH == "\\"
VOLUME_PREFIX == <<BACKSLASH, BACKSLASH, "?", BACKSLASH>>

\* LPWSTR2String: the code units before the first 0.  Every buffer of the
\* model holds a 0, as every buffer the system fills does.
LPWSTR2String(buf) == SubSeq(buf, 1, position(buf, "NUL"))

\* String::pop, String::push
pop(s) == IF s = <<>> THEN s ELSE SubSeq(s, 1, Len(s) - 1)
push(s, c) == Append(s, c)

\* unwrap_or_default() of an Option<String>
unwrap_or_default(o) == IF o.kind = "Some" THEN o.val ELSE <<>>

\* answer: what QueryDosDeviceW, GetVolumePathNamesForVolumeNameW,
\* GetVolumeInformationW and GetDriveTypeW give for the volume.
MountInfo_new_windows(volume_name, answer) ==
  LET dev_id == push(pop(volume_name), BACKSLASH)
      dev_name == LPWSTR2String(answer.dev_name_buf)
  IN  IF ~answer.path_names_ok
      THEN None
      ELSE LET mount_root == LPWSTR2String(answer.mount_root_buf)
               fs_type == IF ~answer.volume_information_ok
                          THEN None
                          ELSE Some(LPWSTR2String(answer.fs_type_buf))
               remote == (DRIVE_REMOTE = answer.drive_type)
           IN  Some([dev_id |-> dev_id,
                     dev_name |-> dev_name,
                     fs_type |-> unwrap_or_default(fs_type),
                     mount_root |-> mount_root,
                     mount_dir |-> <<>>,
                     mount_option |-> <<>>,
                     remote |-> remote,
                     dummy |-> FALSE])

\* How the queries MountInfo::new makes for a volume ended: the
\* path-enumeration query failed (no later query is made), or the
\* volume-information query failed, or both succeeded.
queries_made(answer) ==
  IF ~answer.path_names_ok
  THEN "path_names_failed"
  ELSE IF ~answer.volume_information_ok
       THEN "volume_information_failed"
       ELSE "ok"

\* The test of a volume identifier in read_fs_list's loop.
bad_path(volume_name) ==
  \/ ~starts_with(volume_name, VOLUME_PREFIX)
  \/ ~ends_with(volume_name, <<BACKSLASH>>)

(***************************************************************************)
(* Bounds of the program's inputs.                                         *)
(***************************************************************************)
MaxLines == 2        \* lines the mount table delivers
MaxVolumes == 2      \* volumes the volume search delivers
MaxWarnings == 2     \* warnings counted
MaxFiles == 2        \* paths on the command line

(***************************************************************************)
(* What the operating system may deliver to read_fs_list.                  *)
(***************************************************************************)
RECURSIVE Join(_)
Join(tokens) ==
  IF tokens = <<>> THEN <<>>
  ELSE IF Len(tokens) = 1 THEN tokens[1]
       ELSE tokens[1] \o <<" ">> \o Join(Tail(tokens))

MountinfoLines ==
  { Join(<<TOK_ID, TOK_PARENT, TOK_DEV, TOK_ROOT, TOK_ROOT, TOK_RW,
           DASH, TOK_XFS, TOK_DEVFS, TOK_RW>>),
    Join(<<TOK_ID, TOK_PARENT, TOK_DEV, TOK_ROOT, TOK_MNT, DASH,
           TOK_MASTER, TOK_SHARED, DASH, TOK_PROC, TOK_PROC>>),
    Join(<<TOK_ID, TOK_PARENT, TOK_DEV, TOK_ROOT, TOK_MNT, DASH,
           TOK_XFS, TOK_DEVFS>>),
    <<>> }

MtabLines ==
  { Join(<<TOK_DEVFS, TOK_ROOT, TOK_XFS, TOK_RW>>),
    <<" ">> \o Join(<<TOK_PROC, TOK_MNT, TOK_PROC>>) \o <<"\t", " ">>,
    TOK_DEVFS }

FileLines(name) == IF name = LINUX_MOUNTINFO THEN MountinfoLines ELSE MtabLines

VolumeBuffers ==
  { VOLUME_PREFIX \o <<"V", BACKSLASH, "NUL">>,
    VOLUME_PREFIX \o <<"V", "NUL">>,
    <<"V", BACKSLASH, "NUL">> }

VolumeAnswers ==
  [dev_name_buf : {<<BACKSLASH, "D", "NUL">>},
   path_names_ok : BOOLEAN,
   mount_root_buf : {<<"C", ":", BACKSLASH, "NUL">>},
   volume_information_ok : BOOLEAN,
   fs_type_buf : {<<"N", "T", "F", "S", "NUL">>},
   drive_type : {3, DRIVE_REMOTE}]

(***************************************************************************)
(* read_fs_list (linux, android).                                          *)
(***************************************************************************)
\* File::open(LINUX_MOUNTINFO).map(..).or_else(|_| File::open(LINUX_MTAB).map(..)):
\* the name paired with the file that opened, or the second open's error.
\* Mutant: the fallback keeps the first name.
open_mount_table_keeps_name(mountinfo_ok, mtab_ok) ==
  IF mountinfo_ok
  THEN Ok(LINUX_MOUNTINFO)
  ELSE IF mtab_ok THEN Ok(LINUX_MOUNTINFO) ELSE Err

open_mount_table(mountinfo_ok, mtab_ok) ==
  IF mountinfo_ok
  THEN Ok(LINUX_MOUNTINFO)
  ELSE IF mtab_ok THEN Ok(LINUX_MTAB) ELSE Err

\* filter_map(..).collect(): a record is appended, None is dropped.
collect_mounts(acc, m) ==
  IF m.kind = "Some" THEN Append(acc, m.val) ELSE acc

\* File::open(LINUX_MOUNTINFO)
OpenMountinfo ==
  /\ pc = "read_fs_list"
  /\ platform = "linux"
  /\ \E ok \in BOOLEAN :
       /\ opened' = Append(opened, [path |-> LINUX_MOUNTINFO, ok |-> ok])
       /\ IF ok
          THEN /\ file_name' = open_mount_table(TRUE, FALSE).val
               /\ pc' = "lines"
          ELSE /\ pc' = "open_mtab"
               /\ UNCHANGED file_name
  /\ UNCHANGED <<platform, parse_vars, probe_vars, args_vars, lines, windows_vars,
                 mounts, fs_list, main_vars>>

\* File::open(LINUX_MTAB), then `?`
OpenMtab ==
  /\ pc = "open_mtab"
  /\ \E ok \in BOOLEAN :
       LET r == open_mount_table(FALSE, ok)
       IN  /\ opened' = Append(opened, [path |-> LINUX_MTAB, ok |-> ok])
           /\ IF r.kind = "Ok"
              THEN /\ file_name' = r.val
                   /\ pc' = "lines"
                   /\ UNCHANGED fs_list
              ELSE /\ fs_list' = "Err"
                   /\ pc' = "error"
                   /\ UNCHANGED file_name
  /\ UNCHANGED <<platform, parse_vars, probe_vars, args_vars, lines, windows_vars,
                 mounts, main_vars>>

\* Mutant: a failed read is dropped and the next line is read
\* (filter_map(Result::ok) in place of map_while(Result::ok)).
NextLine_reading_on ==
  /\ pc = "lines"
  /\ \/ /\ Len(lines) < MaxLines
        /\ \E line \in FileLines(file_name) :
             LET raw_data == split_whitespace(line)
                 m == MountInfo_new(file_name, raw_data)
             IN  /\ lines' = Append(lines, Ok(line))
                 /\ IF m.kind = "panic"
                    THEN /\ pc' = "panic"
                         /\ fs_list' = "panic"
                         /\ UNCHANGED mounts
                    ELSE /\ mounts' = collect_mounts(mounts, m)
                         /\ UNCHANGED <<pc, fs_list>>
     \/ /\ fs_list' = "Ok"
        /\ pc' = "filesystems"
        /\ UNCHANGED <<lines, mounts>>
     \/ /\ Len(lines) < MaxLines
        /\ lines' = Append(lines, Err)
        /\ UNCHANGED <<pc, fs_list, mounts>>
  /\ UNCHANGED <<platform, file_name, parse_vars, probe_vars, args_vars, opened,
                 windows_vars, main_vars>>

\* One turn of reader.lines().map_while(Result::ok).filter_map(..): a line is
\* read, split and parsed; the end of the file or a failed read ends the
\* iteration and the list collected so far is returned.
NextLine ==
  /\ pc = "lines"
  /\ \/ /\ Len(lines) < MaxLines
        /\ \E line \in FileLines(file_name) :
             LET raw_data == split_whitespace(line)
                 m == MountInfo_new(file_name, raw_data)
             IN  /\ lines' = Append(lines, Ok(line))
                 /\ IF m.kind = "panic"
                    THEN /\ pc' = "panic"
                         /\ fs_list' = "panic"
                         /\ UNCHANGED mounts
                    ELSE /\ mounts' = collect_mounts(mounts, m)
                         /\ UNCHANGED <<pc, fs_list>>
     \/ /\ fs_list' = "Ok"
        /\ pc' = "filesystems"
        /\ UNCHANGED <<lines, mounts>>
     \/ /\ Len(lines) < MaxLines
        /\ lines' = Append(lines, Err)
        /\ fs_list' = "Ok"
        /\ pc' = "filesystems"
        /\ UNCHANGED mounts
  /\ UNCHANGED <<platform, file_name, parse_vars, probe_vars, args_vars, opened,
                 windows_vars, main_vars>>

(***************************************************************************)
(* read_fs_list (windows).                                                 *)
(***************************************************************************)
FindFirstVolumeW ==
  /\ pc = "read_fs_list"
  /\ platform = "windows"
  /\ \/ /\ find_handle' = "invalid"
        /\ fs_list' = "Err"
        /\ pc' = "error"
        /\ UNCHANGED <<volume_name_buf, volumes>>
     \/ \E buf \in VolumeBuffers :
          /\ find_handle' = "valid"
          /\ volume_name_buf' = buf
          /\ volumes' = <<buf>>
          /\ pc' = "loop"
          /\ UNCHANGED fs_list
  /\ UNCHANGED <<platform, parse_vars, probe_vars, args_vars, linux_vars, closes,
                 warnings, last_query, mounts, main_vars>>

\* One turn of the loop.  A bad path warns and `continue`s: control is back
\* at the head of the loop with the buffer as it was.  Otherwise the volume
\* is resolved, then FindNextVolumeW fills the buffer, or reports
\* ERROR_NO_MORE_FILES (break, FindVolumeClose, Ok), or fails otherwise
\* (return Err).
VolumeLoop ==
  /\ pc = "loop"
  /\ LET volume_name == LPWSTR2String(volume_name_buf)
     IN  IF bad_path(volume_name)
         THEN /\ warnings < MaxWarnings
              /\ warnings' = warnings + 1
              /\ UNCHANGED <<pc, volume_name_buf, volumes, closes, last_query, mounts,
                             fs_list>>
         ELSE \E answer \in VolumeAnswers :
                /\ mounts' = collect_mounts(mounts, MountInfo_new_windows(volume_name, answer))
                /\ last_query' = queries_made(answer)
                /\ UNCHANGED warnings
                /\ \/ /\ Len(volumes) < MaxVolumes
                      /\ \E buf \in VolumeBuffers :
                           /\ volume_name_buf' = buf
                           /\ volumes' = Append(volumes, buf)
                      /\ UNCHANGED <<pc, closes, fs_list>>
                   \/ /\ closes' = closes + 1
                      /\ fs_list' = "Ok"
                      /\ pc' = "filesystems"
                      /\ UNCHANGED <<volume_name_buf, volumes>>
                   \/ /\ fs_list' = "Err"
                      /\ pc' = "error"
                      /\ UNCHANGED <<volume_name_buf, volumes, closes>>
  /\ UNCHANGED <<platform, parse_vars, probe_vars, args_vars, linux_vars, find_handle,
                 main_vars>>

(***************************************************************************)
(* Filesystem (filesystem.rs, not among the sources: modelled from the     *)
(* specification, sections 4.3 and 4.4).                                   *)
(***************************************************************************)
\* Filesystem::new: the mount paired with its usage probe; no Filesystem
\* when the probe fails.
Filesystem_new(target_os, mount_info, file, answer) ==
  LET usage == probe_usage(target_os, mount_info.mount_dir, answer)
  IN  IF usage.kind = "Ok"
      THEN Some([file |-> file, mount_info |-> mount_info, usage |-> usage.val])
      ELSE None

\* The mount whose mount_dir is the longest prefix of the canonical path;
\* of two mounts at the same directory, the later one.
mount_info_from_path(mount_list, canonical) ==
  LET matching == {i \in 1..Len(mount_list) :
                     starts_with(canonical, mount_list[i].mount_dir)}
  IN  IF matching = {}
      THEN None
      ELSE Some(mount_list[CHOOSE i \in matching :
                  \A j \in matching :
                    \/ Len(mount_list[j].mount_dir) < Len(mount_list[i].mount_dir)
                    \/ /\ Len(mount_list[j].mount_dir) = Len(mount_list[i].mount_dir)
                       /\ j <= i])

\* Filesystem::from_path: canonicalize, resolve the containing mount, probe.
\* canonical is what the system's canonicalization of the path gives.
Filesystem_from_path(target_os, mount_list, file, canonical, answer) ==
  IF canonical.kind /= "Ok"
  THEN None
  ELSE LET m == mount_info_from_path(mount_list, canonical.val)
       IN  IF m.kind = "Some"
           THEN Filesystem_new(target_os, m.val, Some(file), answer)
           ELSE None

(***************************************************************************)
(* What main is given, and what the system answers to it.                  *)
(***************************************************************************)
ArgPaths == {<<"/", "m", "/", "f">>, <<"/", "x">>}

CanonAnswers == {Err} \cup {Ok(p) : p \in ArgPaths}

FilesArgs ==
  {None} \cup {Some(s) : s \in (SeqsUpTo(ArgPaths, MaxFiles) \ {<<>>})}

MountDirStartsWith(name) == [rule |-> "mount_dir_starts_with", arg |-> name]
FsType(typ) == [rule |-> "fstype", arg |-> typ]

ExcludeSettings == {None, Some(<<MountDirStartsWith(TOK_MNT), FsType(TOK_XFS)>>)}

StatFsSamples ==
  { [rc |-> -1, buffer |-> [f_bsize |-> 0, f_blocks |-> 0, f_bfree |-> 0, f_bavail |-> 0]],
    [rc |-> 0, buffer |-> [f_bsize |-> 4096, f_blocks |-> 0, f_bfree |-> 0, f_bavail |-> 0]],
    [rc |-> 0, buffer |-> [f_bsize |-> 4096, f_blocks |-> 8, f_bfree |-> 2, f_bavail |-> 1]] }

DiskFreeSpaceSamples ==
  { [path_names_ok |-> FALSE, free_space_ok |-> FALSE, sectors_per_cluster |-> 0,
     bytes_per_sector |-> 0, number_of_free_clusters |-> 0, total_number_of_clusters |-> 0],
    [path_names_ok |-> TRUE, free_space_ok |-> FALSE, sectors_per_cluster |-> 0,
     bytes_per_sector |-> 0, number_of_free_clusters |-> 0, total_number_of_clusters |-> 0],
    [path_names_ok |-> TRUE, free_space_ok |-> TRUE, sectors_per_cluster |-> 8,
     bytes_per_sector |-> 512, number_of_free_clusters |-> 2, total_number_of_clusters |-> 8] }

UsageAnswers(target_os) ==
  IF target_os = "windows" THEN DiskFreeSpaceSamples ELSE StatFsSamples

(***************************************************************************)
(* main, from read_fs_list's return to render_table.                       *)
(***************************************************************************)
\* The exclusion rules of the configuration: config.exclude, or no rule.
excluded(fs, exclusion) ==
  LET rules == IF exclusion.kind = "Some" THEN exclusion.val ELSE <<>>
  IN  \E k \in 1..Len(rules) :
        IF rules[k].rule = "mount_dir_starts_with"
        THEN starts_with(fs.mount_info.mount_dir, rules[k].arg)
        ELSE fs.mount_info.fs_type = rules[k].arg

\* files.iter().filter_map(|file| Filesystem::from_path(&mounts, file)).collect()
\* Mutant: a path that gives no Filesystem discards what was collected.
collect_from_path_aborting(acc, r) ==
  IF r.kind = "Some" THEN Append(acc, r.val) ELSE <<>>

collect_from_path(acc, r) ==
  IF r.kind = "Some" THEN Append(acc, r.val) ELSE acc

\* mounts.into_iter().filter_map(|m| Filesystem::new(m, None))
\*   .filter(|fs| fs.usage.blocks > 0).filter(|fs| !excluded).collect()
\* Mutant: the zero-block filter is missing.
collect_from_mount_unfiltered(acc, r, exclusion) ==
  IF r.kind = "Some" /\ ~excluded(r.val, exclusion)
  THEN Append(acc, r.val)
  ELSE acc

\* Mutant: the newest entry is put first.
collect_from_mount_reversed(acc, r, exclusion) ==
  IF r.kind = "Some" /\ r.val.usage.blocks > 0 /\ ~excluded(r.val, exclusion)
  THEN <<r.val>> \o acc
  ELSE acc

collect_from_mount(acc, r, exclusion) ==
  IF r.kind = "Some" /\ r.val.usage.blocks > 0 /\ ~excluded(r.val, exclusion)
  THEN Append(acc, r.val)
  ELSE acc

\* The targets main builds a Filesystem for.
Targets == IF files.kind = "Some" THEN files.val ELSE mounts

\* if let Some(files) = args.files: the next requested path.
FromPath ==
  /\ pc = "filesystems"
  /\ files.kind = "Some"
  /\ Len(built) < Len(files.val)
  /\ \E canonical \in CanonAnswers, answer \in UsageAnswers(platform) :
       LET file == files.val[Len(built) + 1]
           r == Filesystem_from_path(platform, mounts, file, canonical, answer)
       IN  /\ built' = Append(built, r)
           /\ filesystems' = collect_from_path(filesystems, r)
  /\ UNCHANGED <<pc, platform, parse_vars, probe_vars, args_vars, linux_vars,
                 windows_vars, mounts, fs_list>>

\* else: the next enumerated mount.
FromMount ==
  /\ pc = "filesystems"
  /\ files.kind = "None"
  /\ Len(built) < Len(mounts)
  /\ \E answer \in UsageAnswers(platform) :
       LET m == mounts[Len(built) + 1]
           r == Filesystem_new(platform, m, None, answer)
       IN  /\ built' = Append(built, r)
           /\ filesystems' = collect_from_mount(filesystems, r, exclude)
  /\ UNCHANGED <<pc, platform, parse_vars, probe_vars, args_vars, linux_vars,
                 windows_vars, mounts, fs_list>>

\* The iterator is exhausted: `filesystems` is complete.
Collected ==
  /\ pc = "filesystems"
  /\ Len(built) = Len(Targets)
  /\ pc' = "render"
  /\ UNCHANGED <<platform, parse_vars, probe_vars, args_vars, linux_vars,
                 windows_vars, mounts, fs_list, main_vars>>

\* render_table(filesystems, config, column_config)
Render ==
  /\ pc = "render"
  /\ pc' = "done"
  /\ UNCHANGED <<platform, parse_vars, probe_vars, args_vars, linux_vars,
                 windows_vars, mounts, fs_list, main_vars>>

(***************************************************************************)
(* Spec: main on one build target.                                         *)
(***************************************************************************)
Init ==
  /\ pc = "read_fs_list"
  /\ platform \in {"linux", "windows"}
  /\ files \in FilesArgs
  /\ exclude \in ExcludeSettings
  /\ file_name = ""
  /\ raw = <<>>
  /\ info = None
  /\ target = <<>>
  /\ os = None
  /\ probe = None
  /\ opened = <<>>
  /\ lines = <<>>
  /\ volume_name_buf = <<"NUL">>
  /\ volumes = <<>>
  /\ find_handle = "none"
  /\ closes = 0
  /\ warnings = 0
  /\ last_query = "none"
  /\ mounts = <<>>
  /\ fs_list = "running"
  /\ built = <<>>
  /\ filesystems = <<>>

Next ==
  \/ OpenMountinfo
  \/ OpenMtab
  \/ NextLine
  \/ FindFirstVolumeW
  \/ VolumeLoop
  \/ FromPath
  \/ FromMount
  \/ Collected
  \/ Render

Spec == Init /\ [][Next]_vars

(***************************************************************************)
(* C3 .. C8: read_fs_list and main.                                        *)
(***************************************************************************)
\* The record MountInfo::new gives for the i-th line read, under format name.
ParsedLine(name, i) == MountInfo_new(name, split_whitespace(lines[i].val)).val

\* C3: on Linux /proc/self/mountinfo is opened first and /etc/mtab only
\* after that open failed; the lines are parsed with the format of the file
\* that opened; when both opens fail read_fs_list returns an error and no
\* mount list.
C3_MountTableFallback ==
  platform = "linux" =>
    /\ Len(opened) <= 2
    /\ Len(opened) >= 1 => opened[1].path = LINUX_MOUNTINFO
    /\ Len(opened) = 2 => (~opened[1].ok /\ opened[2].path = LINUX_MTAB)
    /\ pc \notin {"read_fs_list", "open_mtab", "error"} =>
         /\ opened[Len(opened)].ok
         /\ file_name = opened[Len(opened)].path
         /\ \A i \in 1..Len(mounts) :
              mounts[i] = ParsedLine(opened[Len(opened)].path, i)
    /\ (Len(opened) = 2 /\ ~opened[2].ok) =>
         (fs_list = "Err" /\ pc = "error" /\ mounts = <<>> /\ lines = <<>>)
    /\ fs_list = "Err" => (Len(opened) = 2 /\ ~opened[2].ok)

C3_Witness ==
  /\ platform = "linux"
  /\ Len(opened) = 2
  /\ opened[2].ok
  /\ file_name = LINUX_MTAB
  /\ fs_list = "Ok"
  /\ mounts = <<MountInfo(TOK_PROC, TOK_PROC, TOK_MNT)>>

\* The Filesystems of the targets that gave one, in target order.
RECURSIVE Successes(_)
Successes(results) ==
  IF results = <<>> THEN <<>>
  ELSE IF Head(results).kind = "Some"
       THEN <<Head(results).val>> \o Successes(Tail(results))
       ELSE Successes(Tail(results))

\* C4: with no path given no listed Filesystem has blocks = 0; with paths
\* given every Filesystem resolved for a path is listed, whatever its
\* blocks and whatever the exclusion rules.
C4_ZeroBlockFilter ==
  /\ files.kind = "None" =>
       \A j \in 1..Len(filesystems) : filesystems[j].usage.blocks /= 0
  /\ files.kind = "Some" =>
       /\ Len(filesystems) = Len(Successes(built))
       /\ \A i \in 1..Len(built) :
            built[i].kind = "Some" =>
              \E j \in 1..Len(filesystems) : filesystems[j] = built[i].val

C4_Witness ==
  /\ files.kind = "Some"
  /\ pc = "render"
  /\ \E j \in 1..Len(filesystems) :
       /\ filesystems[j].usage.blocks = 0
       /\ excluded(filesystems[j], exclude)

\* a is b with some entries removed: nothing reordered, nothing repeated.
RECURSIVE IsSubseq(_, _)
IsSubseq(a, b) ==
  IF a = <<>> THEN TRUE
  ELSE IF b = <<>> THEN FALSE
       ELSE IF Head(a) = Head(b)
            THEN IsSubseq(Tail(a), Tail(b))
            ELSE IsSubseq(a, Tail(b))

\* C5: the mounts are in the order their records were read (on Linux the
\* i-th mount is the i-th line's, on Windows the volumes kept are in
\* delivery order), and with no path given the Filesystems' mounts are a
\* subsequence of that list.
C5_OrderPreserved ==
  /\ platform = "linux" =>
       /\ Len(mounts) <= Len(lines)
       /\ \A i \in 1..Len(mounts) : mounts[i] = ParsedLine(file_name, i)
  /\ platform = "windows" =>
       IsSubseq([i \in 1..Len(mounts) |-> mounts[i].dev_id],
                [i \in 1..Len(volumes) |-> LPWSTR2String(volumes[i])])
  /\ files.kind = "None" =>
       IsSubseq([j \in 1..Len(filesystems) |-> filesystems[j].mount_info], mounts)

C5_Witness ==
  /\ files.kind = "None"
  /\ pc = "render"
  /\ Len(mounts) = 2
  /\ mounts[1] /= mounts[2]
  /\ Len(filesystems) = 2
  /\ filesystems[1].mount_info = mounts[1]
  /\ filesystems[2].mount_info = mounts[2]

\* What main's filters keep of an enumerated mount's Filesystem.
Listed(fs) == fs.usage.blocks > 0 /\ ~excluded(fs, exclude)

C7_BadVolumeAdvances ==
  [][(pc = "loop" /\ bad_path(LPWSTR2String(volume_name_buf))) =>
       (pc' /= "loop" \/ Len(volumes') = Len(volumes) + 1)]_vars

\* C8: on Windows, once the search handle is valid, FindVolumeClose has been
\* called exactly once when read_fs_list has returned, with Ok or with Err.
C8_HandleClosedOnce ==
  (find_handle = "valid" /\ fs_list \in {"Ok", "Err"}) => closes = 1

(***************************************************************************)
(* C11 .. C14: the records read_fs_list returns, and its failures.         *)
(***************************************************************************)
\* A path that is not empty and starts at a root: "/" on Linux, a
\* backslash or a drive ("C:\") on Windows.
IsAbsolute(dir) ==
  /\ dir /= <<>>
  /\ \/ dir[1] = "/"
     \/ dir[1] = BACKSLASH
     \/ (Len(dir) >= 3 /\ dir[2] = ":" /\ dir[3] = BACKSLASH)

\* C11: every MountInfo read_fs_list collects has a mount_dir that is not
\* empty and is absolute.
C11_MountDirAbsolute ==
  \A i \in 1..Len(mounts) : IsAbsolute(mounts[i].mount_dir)

\* A mountinfo token sequence MountInfo::new cannot take a record from: no
\* "-" at index >= 6, or fewer than two tokens after the first one there.
Malformed(tokens) ==
  \A k \in FIELDS_OFFSET..(Len(tokens) - 1) :
    (/\ at(tokens, k) = DASH
     /\ \A j \in FIELDS_OFFSET..(k - 1) : at(tokens, j) /= DASH)
      => k + 2 >= Len(tokens)

\* C12: a malformed mountinfo line, also one whose only "-" is below index
\* 6, aborts the enumeration: it is the last line read, the program has
\* panicked, and no record was collected for it.
C12_MalformedLineAborts ==
  (platform = "linux" /\ file_name = LINUX_MOUNTINFO) =>
    \A i \in 1..Len(lines) :
      (lines[i].kind = "Ok" /\ Malformed(split_whitespace(lines[i].val))) =>
        /\ i = Len(lines)
        /\ pc = "panic"
        /\ fs_list = "panic"
        /\ Len(mounts) = i - 1

C12_Witness ==
  /\ platform = "linux"
  /\ file_name = LINUX_MOUNTINFO
  /\ Len(lines) = 2
  /\ lines[2].kind = "Ok"
  /\ Malformed(split_whitespace(lines[2].val))
  /\ Len(split_whitespace(lines[2].val)) > FIELDS_OFFSET
  /\ at(split_whitespace(lines[2].val), 5) = DASH
  /\ pc = "panic"
  /\ Len(mounts) = 1

\* C13: on Windows, once the path-enumeration query of a volume has failed
\* read_fs_list has returned an error; once only the volume-information
\* query has failed the volume is in the list with an empty fs_type.
C13_PathQueryFailureIsFatal ==
  platform = "windows" =>
    /\ last_query = "path_names_failed" => (fs_list = "Err" /\ pc = "error")
    /\ last_query = "volume_information_failed" =>
         (mounts /= <<>> /\ mounts[Len(mounts)].fs_type = <<>>)

\* The number of lines read without error.
LinesOk == Len(SelectSeq(lines, LAMBDA r : r.kind = "Ok"))

\* C14: on Linux a failed read is the last read made: read_fs_list has
\* returned Ok with exactly the records of the lines before it, the k-th
\* record being the k-th line's; and when read_fs_list returns Ok there is
\* one record per line read without error.
C14_ReadErrorTruncates ==
  platform = "linux" =>
    /\ \A i \in 1..Len(lines) :
         lines[i].kind = "Err" =>
           /\ i = Len(lines)
           /\ fs_list = "Ok"
           /\ pc /= "lines"
           /\ Len(mounts) = i - 1
           /\ \A k \in 1..(i - 1) : mounts[k] = ParsedLine(file_name, k)
    /\ fs_list = "Ok" => Len(mounts) = LinesOk

C14_Witness ==
  /\ platform = "linux"
  /\ Len(lines) = 2
  /\ lines[1].kind = "Ok"
  /\ lines[2].kind = "Err"
  /\ fs_list = "Ok"
  /\ Len(mounts) = 1
  /\ mounts[1] = ParsedLine(file_name, 1)

====
